---- MODULE Spec2Model ----
(***************************************************************************)
(* A model of the AIM report automation core: floor/room extraction from   *)
(* a description, the building/floor/room rank keys, the sort done by      *)
(* prepare_dataframe, the business-day age, and the two pipelines          *)
(* (prepare_dataframe and run_aim_formatter) run on one CSV table.         *)
(*                                                                         *)
(* Python strings are sequences of one-character strings; a Python value   *)
(* that may fail to be a string is a record [type, text].                  *)
(***************************************************************************)
EXTENDS Integers, Sequences, FiniteSets, TLC

VARIABLES
    pc,             \* position of the running operation
    description,    \* argument of _extract_floor_room
    floor_val,      \* first component of its result
    room_val,       \* second component of its result
    label_a,        \* a building, floor or room label to rank
    label_b,        \* a second label, ranked against the first
    ranks,          \* the rank keys of the two labels
    frame,          \* the table read from the CSV file
    result,         \* what prepare_dataframe returns or raises
    start,          \* creation timestamp of a work order
    end,            \* the timestamp the age is taken at
    age,            \* the business-day age
    table,          \* a CSV table with its header row, as read_csv gives it
    report,         \* what prepare_dataframe returns or raises for the table
    sheet           \* what run_aim_formatter writes or raises for the table

extractVars == <<description, floor_val, room_val>>

rankVars == <<label_a, label_b, ranks>>

prepareVars == <<frame, result>>

daysVars == <<start, end, age>>

batchVars == <<table, report, sheet>>

vars == <<pc, extractVars, rankVars, prepareVars, daysVars, batchVars>>

\* the variables of the operations a specification does not exercise
ExtractIdle == description = [type |-> "None", text |-> <<>>] /\ floor_val = <<>> /\ room_val = <<>>

RankIdle == label_a = <<>> /\ label_b = <<>> /\ ranks = <<>>

PrepareIdle == frame = <<>> /\ result = <<>>

DaysIdle == start = <<>> /\ end = <<>> /\ age = <<>>

BatchIdle == table = <<>> /\ report = <<>> /\ sheet = <<>>

----------------------------------------------------------------------------
(* Characters and the str methods the code uses *)

Digits == {"0", "1", "2", "3", "4", "5", "6", "7", "8", "9"}

LowerSeq == <<"a", "b", "c", "d", "e", "f", "g", "h", "i", "j", "k", "l", "m",
              "n", "o", "p", "q", "r", "s", "t", "u", "v", "w", "x", "y", "z">>

UpperSeq == <<"A", "B", "C", "D", "E", "F", "G", "H", "I", "J", "K", "L", "M",
              "N", "O", "P", "Q", "R", "S", "T", "U", "V", "W", "X", "Y", "Z">>

LowerLetters == {LowerSeq[i] : i \in 1..26}

UpperLetters == {UpperSeq[i] : i \in 1..26}

\* The characters of the model in code-point order (str comparison order).
Ascii == <<" ", "-", ".", "0", "1", "2", "3", "4", "5", "6", "7", "8", "9", ":">>
         \o UpperSeq \o <<"_">> \o LowerSeq

Ord(c) == CHOOSE i \in 1..Len(Ascii) : Ascii[i] = c

UpperMap == [c \in LowerLetters |-> UpperSeq[CHOOSE i \in 1..26 : LowerSeq[i] = c]]

UpperChar(c) == IF c \in LowerLetters THEN UpperMap[c] ELSE c

\* str.upper()
Upper(s) == [i \in 1..Len(s) |-> UpperChar(s[i])]

IsDigit(c) == c \in Digits

IsAlpha(c) == c \in LowerLetters \/ c \in UpperLetters

\* the class [A-Za-z0-9]
IsAlnum(c) == IsDigit(c) \/ IsAlpha(c)

\* the class \w
IsWord(c) == IsAlnum(c) \/ c = "_"

\* the class \s
IsSpace(c) == c = " "

Min(S) == CHOOSE x \in S : \A y \in S : x <= y

Max(S) == CHOOSE x \in S : \A y \in S : x >= y

\* str.strip()
Strip(s) ==
    LET keep == {i \in 1..Len(s) : ~IsSpace(s[i])}
    IN  IF keep = {} THEN <<>> ELSE SubSeq(s, Min(keep), Max(keep))

\* str.isdigit() (false for the empty string)
IsDigitStr(s) == Len(s) > 0 /\ \A i \in 1..Len(s) : IsDigit(s[i])

----------------------------------------------------------------------------
(* re.search for the four patterns of _extract_floor_room *)

\* smallest position >= j that holds no whitespace (greedy \s*)
SkipSpaces(s, j) == Min({k \in j..(Len(s) + 1) : k = Len(s) + 1 \/ ~IsSpace(s[k])})

\* smallest position >= j that holds no [A-Za-z0-9] (greedy [A-Za-z0-9]+)
AlnumEnd(s, j) == Min({k \in j..(Len(s) + 1) : k = Len(s) + 1 \/ ~IsAlnum(s[k])})

\* the literal kw (given in upper case) at position i, ignoring case
LiteralAt(s, i, kw) ==
    /\ i + Len(kw) - 1 <= Len(s)
    /\ \A k \in 1..Len(kw) : UpperChar(s[i + k - 1]) = kw[k]

\* \b between positions p-1 and p
BoundaryAt(s, p) ==
    (p > 1 /\ p - 1 <= Len(s) /\ IsWord(s[p - 1])) # (p >= 1 /\ p <= Len(s) /\ IsWord(s[p]))

\* (?:kw)\s*[:\-]?\s*([A-Za-z0-9]+) tried at position i with one keyword:
\* the captured group, or <<>> when there is no match. Every quantifier is
\* greedy; giving a character back never helps, since the character after
\* the whitespace decides alone whether the separator and the group match.
MarkerGroupAt(s, i, kw) ==
    IF ~LiteralAt(s, i, kw) THEN <<>>
    ELSE LET j1 == SkipSpaces(s, i + Len(kw))
             j2 == IF j1 <= Len(s) /\ s[j1] \in {":", "-"} THEN j1 + 1 ELSE j1
             j3 == SkipSpaces(s, j2)
         IN  SubSeq(s, j3, AlnumEnd(s, j3) - 1)

\* the alternation tried at position i, keywords in pattern order
MarkerAt(s, i, kws) ==
    LET hits == {n \in 1..Len(kws) : MarkerGroupAt(s, i, kws[n]) # <<>>}
    IN  IF hits = {} THEN <<>> ELSE MarkerGroupAt(s, i, kws[Min(hits)])

\* re.search(r"(?:k1|k2|..)\s*[:\-]?\s*([A-Za-z0-9]+)", s, re.IGNORECASE):
\* group(1) of the leftmost match, <<>> for no match
SearchMarker(s, kws) ==
    LET hits == {i \in 1..Len(s) : MarkerAt(s, i, kws) # <<>>}
    IN  IF hits = {} THEN <<>> ELSE MarkerAt(s, Min(hits), kws)

FloorKeywords == << <<"F", "L", "O", "O", "R">>, <<"F", "L", "R">>,
                    <<"L", "E", "V", "E", "L">>, <<"L", "V", "L">> >>

RoomKeywords == << <<"R", "O", "O", "M">>, <<"R", "M">> >>

SpecialFloorWords == << <<"L", "L">>, <<"S", "F">> >>

\* \b(LL|SF)\b tried at position i
SpecialFloorAt(s, i) ==
    /\ BoundaryAt(s, i)
    /\ \E n \in 1..Len(SpecialFloorWords) : LiteralAt(s, i, SpecialFloorWords[n])
    /\ BoundaryAt(s, i + 2)

\* re.search(r"\b(LL|SF)\b", s, re.IGNORECASE)
SearchSpecialFloor(s) ==
    LET hits == {i \in 1..Len(s) : SpecialFloorAt(s, i)}
    IN  IF hits = {} THEN <<>> ELSE SubSeq(s, Min(hits), Min(hits) + 1)

\* the bare-room pattern with its closing \b forgotten
BareRoomShapeAt_NoEndBoundary(s, i, nd, nl) ==
    /\ BoundaryAt(s, i)
    /\ i + nd + nl - 1 <= Len(s)
    /\ \A k \in 0..(nd - 1) : IsDigit(s[i + k])
    /\ nl = 1 => IsAlpha(s[i + nd])

\* \b(\d{nd}[A-Z]{nl})\b at position i
BareRoomShapeAt(s, i, nd, nl) ==
    /\ BoundaryAt(s, i)
    /\ i + nd + nl - 1 <= Len(s)
    /\ \A k \in 0..(nd - 1) : IsDigit(s[i + k])
    /\ nl = 1 => IsAlpha(s[i + nd])
    /\ BoundaryAt(s, i + nd + nl)

\* the ways \d{3,4}[A-Z]? can match, in the order the matcher tries them
BareRoomShapes == << <<4, 1>>, <<4, 0>>, <<3, 1>>, <<3, 0>> >>

\* \b(\d{3,4}[A-Z]?)\b tried at position i: the group or <<>>
BareRoomAt(s, i) ==
    LET ok == {n \in 1..Len(BareRoomShapes) :
                  BareRoomShapeAt(s, i, BareRoomShapes[n][1], BareRoomShapes[n][2])}
    IN  IF ok = {} THEN <<>>
        ELSE LET sh == BareRoomShapes[Min(ok)] IN SubSeq(s, i, i + sh[1] + sh[2] - 1)

\* re.search(r"\b(\d{3,4}[A-Z]?)\b", s, re.IGNORECASE)
SearchBareRoom(s) ==
    LET hits == {i \in 1..Len(s) : BareRoomAt(s, i) # <<>>}
    IN  IF hits = {} THEN <<>> ELSE BareRoomAt(s, Min(hits))

----------------------------------------------------------------------------
(* _extract_floor_room *)

\* the floor patterns in order, first match wins
FloorPatterns(desc) ==
    LET m1 == SearchMarker(desc, FloorKeywords)
    IN  IF m1 # <<>> THEN m1 ELSE SearchSpecialFloor(desc)

\* the room patterns in order, first match wins
RoomPatterns(desc) ==
    LET m1 == SearchMarker(desc, RoomKeywords)
    IN  IF m1 # <<>> THEN m1 ELSE SearchBareRoom(desc)

HighRisePrefixes == { <<"1", "0">>, <<"1", "1">>, <<"1", "2">> }

\* the fallback without the high-rise prefix rule
FloorFallback_LeadingDigitOnly(floor, room) ==
    IF floor = <<>> /\ room # <<>> /\ IsDigit(room[1]) THEN SubSeq(room, 1, 1) ELSE floor

\* the floor derived from the room's leading digit(s)
FloorFallback(floor, room) ==
    IF floor = <<>> /\ room # <<>>
    THEN IF Len(room) >= 2 /\ IsDigitStr(SubSeq(room, 1, 2))
         THEN IF SubSeq(room, 1, 2) \in HighRisePrefixes
              THEN SubSeq(room, 1, 2) ELSE SubSeq(room, 1, 1)
         ELSE IF IsDigit(room[1]) THEN SubSeq(room, 1, 1) ELSE floor
    ELSE floor

\* the canonical special tokens
NormalizeFloor(floor) ==
    IF Upper(floor) \in { <<"0">>, <<"B">> } THEN <<"B">>
    ELSE IF Upper(floor) = <<"L", "L">> THEN <<"L", "L">>
    ELSE IF Upper(floor) = <<"S", "F">> THEN <<"S", "F">>
    ELSE floor

ExtractFloorRoom(d) ==
    IF d.type # "str" \/ Strip(d.text) = <<>>
    THEN [floor |-> <<>>, room |-> <<>>]
    ELSE LET desc == Strip(d.text)
             room == RoomPatterns(desc)
         IN  [floor |-> NormalizeFloor(FloorFallback(FloorPatterns(desc), room)),
              room  |-> room]

----------------------------------------------------------------------------
(* Inputs of _extract_floor_room *)

\* the longest generated description, in words
MaxWords == 3

\* the words generated descriptions are made of
Vocabulary ==
    << <<"R", "o", "o", "m", ":">>,
       <<"R", "m", ":">>,
       <<"F", "l", "o", "o", "r", ":">>,
       <<"2", "0", "4">>,
       <<"1", "1", "0", "4">>,
       <<"B", "1", "2">>,
       <<"2">>,
       <<"0">>,
       <<"B", "a", "t", "h", "r", "o", "o", "m">>,
       <<"f", "l", "o", "o", "r">>,
       <<"h", "a", "l", "l", "w", "a", "y">>,
       <<"S", "F">>,
       <<"L", "v", "l", "-", "3">>,
       <<"1", "2", "3", "4", "5">>,
       <<"3", "1", "0", "a">>,
       <<"A", "l", "a", "r", "m">> >>

RECURSIVE Join(_)
\* " ".join(words)
Join(ws) ==
    IF Len(ws) = 0 THEN <<>>
    ELSE IF Len(ws) = 1 THEN ws[1]
    ELSE ws[1] \o <<" ">> \o Join(Tail(ws))

Str(s) == [type |-> "str", text |-> s]

\* a missing description (None) and an empty CSV cell (float NaN)
NonStrings == {[type |-> "None", text |-> <<>>], [type |-> "float", text |-> <<>>]}

Scenario1 == <<"F", "l", "o", "o", "r", ":", " ", "2", " ", "R", "o", "o", "m", ":", " ", "2", "0", "4">>

Scenario2 == <<"R", "o", "o", "m", ":", " ", "1", "1", "0", "4">>

Scenario3 == <<"E", "l", "e", "v", "a", "t", "o", "r", " ", "n", "e", "a", "r", " ", "2", "n", "d", " ",
               "f", "l", "o", "o", "r", " ", "h", "a", "l", "l", "w", "a", "y">>

Scenario4 == <<"B", "a", "s", "e", "m", "e", "n", "t", " ", "s", "t", "o", "r", "a", "g", "e", " ",
               "R", "m", ":", " ", "B", "1", "2">>

ScenarioDescriptions == <<Scenario1, Scenario2, Scenario3, Scenario4>>

GeneratedTexts ==
    {Join([i \in DOMAIN ws |-> Vocabulary[ws[i]]]) :
        ws \in UNION {[1..k -> 1..Len(Vocabulary)] : k \in 0..MaxWords}}

Descriptions ==
    {Str(t) : t \in GeneratedTexts}
    \cup {Str(ScenarioDescriptions[i]) : i \in 1..Len(ScenarioDescriptions)}
    \cup {Str(<<" ", " ">>), Str(<<" ">> \o Scenario2 \o <<" ">>)}
    \cup NonStrings

----------------------------------------------------------------------------
(* The extraction of one description *)

InitExtract ==
    /\ pc = "extract"
    /\ description \in Descriptions
    /\ floor_val = <<>>
    /\ room_val = <<>>
    /\ RankIdle /\ PrepareIdle /\ DaysIdle /\ BatchIdle

Extract ==
    /\ pc = "extract"
    /\ pc' = "extracted"
    /\ floor_val' = ExtractFloorRoom(description).floor
    /\ room_val' = ExtractFloorRoom(description).room
    /\ UNCHANGED <<description, rankVars, prepareVars, daysVars, batchVars>>

NextExtract == Extract

SpecExtract == InitExtract /\ [][NextExtract]_vars

----------------------------------------------------------------------------
(* Properties of the extraction *)

Word(n) == Vocabulary[n]

Extracted == pc = "extracted" /\ description.type = "str"

ExplicitRoomMarkers == << <<"R", "O", "O", "M", ":">>, <<"R", "M", ":">> >>

\* the token X of a marker "Room: X" / "Rm: X" that starts at position i
ExplicitRoomTokenAt(s, i) ==
    IF \E n \in 1..Len(ExplicitRoomMarkers) : LiteralAt(s, i, ExplicitRoomMarkers[n])
    THEN LET m == ExplicitRoomMarkers[CHOOSE n \in 1..Len(ExplicitRoomMarkers) :
                                         LiteralAt(s, i, ExplicitRoomMarkers[n])]
             j == SkipSpaces(s, i + Len(m))
         IN  SubSeq(s, j, AlnumEnd(s, j) - 1)
    ELSE <<>>

\* the token of the first explicit room marker of s, <<>> when s has none
FirstExplicitRoomToken(s) ==
    LET at == {i \in 1..Len(s) : ExplicitRoomTokenAt(s, i) # <<>>}
    IN  IF at = {} THEN <<>> ELSE ExplicitRoomTokenAt(s, Min(at))

\* C1: a description with an explicit "Room: X" or "Rm: X" marker yields
\* room = X, whatever other text stands before or after the marker.
C1_ExplicitRoomMarkerWins ==
    (Extracted /\ FirstExplicitRoomToken(description.text) # <<>>)
        => room_val = FirstExplicitRoomToken(description.text)

ColonMarkers ==
    { <<"F", "L", "O", "O", "R", ":">>, <<"F", "L", "R", ":">>,
      <<"L", "E", "V", "E", "L", ":">>, <<"L", "V", "L", ":">>,
      <<"R", "O", "O", "M", ":">>, <<"R", "M", ":">> }

Keywords ==
    { <<"F", "L", "O", "O", "R">>, <<"F", "L", "R">>, <<"L", "E", "V", "E", "L">>,
      <<"L", "V", "L">>, <<"R", "O", "O", "M">>, <<"R", "M">> }

\* s holds one of the literals, in any case, at any place
ContainsAny(s, literals) == \E i \in 1..Len(s) : \E m \in literals : LiteralAt(s, i, m)

\* a maximal run of word characters of s, as <<first, last>>
WordTokens(s) ==
    {<<i, j>> \in (1..Len(s)) \X (1..Len(s)) :
        /\ i <= j
        /\ \A k \in i..j : IsWord(s[k])
        /\ i = 1 \/ ~IsWord(s[i - 1])
        /\ j = Len(s) \/ ~IsWord(s[j + 1])}

\* a standalone word LL or SF
IsSpecialFloorWord(w) == Upper(w) \in { <<"L", "L">>, <<"S", "F">> }

\* a standalone token of 3 or 4 digits with at most one letter after them
IsBareRoomToken(w) ==
    \E nd \in {3, 4} :
        /\ Len(w) \in {nd, nd + 1}
        /\ \A k \in 1..nd : IsDigit(w[k])
        /\ Len(w) = nd + 1 => IsAlpha(w[nd + 1])

NoStandaloneToken(s) ==
    \A t \in WordTokens(s) :
        ~IsSpecialFloorWord(SubSeq(s, t[1], t[2])) /\ ~IsBareRoomToken(SubSeq(s, t[1], t[2]))

NothingExtracted == floor_val = <<>> /\ room_val = <<>>

ClaimedFallback(room) ==
    IF Len(room) >= 2 /\ IsDigit(room[1]) /\ IsDigit(room[2])
       /\ <<room[1], room[2]>> \in { <<"1", "0">>, <<"1", "1">>, <<"1", "2">> }
    THEN <<room[1], room[2]>>
    ELSE IF Len(room) >= 1 /\ IsDigit(room[1])
    THEN IF room[1] = "0" THEN <<"B">> ELSE <<room[1]>>
    ELSE <<>>

\* C3: the floor comes from the room only when no floor pattern matched and
\* the room is non-empty: a 10/11/12 prefix, else the leading digit (0 read
\* as B), else nothing; "Room: 1104" gives 11, "Room: 204" gives 2, and a
\* floor found by a floor pattern is never replaced.
C3_FloorFallback ==
    Extracted =>
        LET matched == FloorPatterns(Strip(description.text))
        IN  /\ matched # <<>> => floor_val = NormalizeFloor(matched)
            /\ (matched = <<>> /\ room_val = <<>>) => floor_val = <<>>
            /\ (matched = <<>> /\ room_val # <<>>) => floor_val = ClaimedFallback(room_val)
            /\ description.text = Scenario2 => floor_val = <<"1", "1">>
            /\ description.text = Join(<<Word(1), Word(4)>>) => floor_val = <<"2">>

C3_Witness ==
    /\ pc = "extracted"
    /\ description = Str(Scenario2)
    /\ room_val = <<"1", "1", "0", "4">>
    /\ floor_val = <<"1", "1">>

----------------------------------------------------------------------------
(* Python values in rank keys, and their comparison *)

PyInt(n) == [t |-> "int", n |-> n, s |-> <<>>]

PyStr(s) == [t |-> "str", n |-> 0, s |-> s]

\* str < str: by code point, a proper prefix first
StrLess(s, t) ==
    \E k \in 1..(Len(t)) :
        /\ \A j \in 1..(k - 1) : j <= Len(s) /\ s[j] = t[j]
        /\ \/ k = Len(s) + 1
           \/ k <= Len(s) /\ Ord(s[k]) < Ord(t[k])

\* x < y for two ints or two strs (no rank key compares an int with a str:
\* equal tiers hold values of one type)
PyLess(x, y) ==
    IF x.t = "int" /\ y.t = "int" THEN x.n < y.n
    ELSE IF x.t = "str" /\ y.t = "str" THEN StrLess(x.s, y.s)
    ELSE FALSE

\* a < b for two tuples of equal length
TupleLess(a, b) ==
    \E k \in 1..Len(a) :
        /\ \A j \in 1..(k - 1) : a[j] = b[j]
        /\ PyLess(a[k], b[k])

RECURSIVE IntOf(_)
\* int(s) for a string of digits
IntOf(s) ==
    IF Len(s) = 0 THEN 0
    ELSE 10 * IntOf(SubSeq(s, 1, Len(s) - 1)) + (Ord(s[Len(s)]) - Ord("0"))

----------------------------------------------------------------------------
(* _floor_rank, _room_rank, _building_rank *)

IsNone(v) == v.type = "None"

SpecialFloors == { <<"B">>, <<"L", "L">>, <<"S", "F">> }

\* _floor_rank with the tiers of special and numeric floors exchanged
FloorRank_NumericFirst(v) ==
    IF IsNone(v) \/ Strip(v.text) = <<>> THEN <<PyInt(0), PyStr(<<>>)>>
    ELSE LET val == Strip(Upper(v.text))
         IN  IF val \in SpecialFloors THEN <<PyInt(2), PyStr(val)>>
             ELSE IF IsDigitStr(val) THEN <<PyInt(1), PyInt(IntOf(val))>>
             ELSE <<PyInt(3), PyStr(val)>>

\* _floor_rank keeping a numeric floor as text
FloorRank_DigitsAsText(v) ==
    IF IsNone(v) \/ Strip(v.text) = <<>> THEN <<PyInt(0), PyStr(<<>>)>>
    ELSE LET val == Strip(Upper(v.text))
         IN  IF val \in SpecialFloors THEN <<PyInt(1), PyStr(val)>>
             ELSE IF IsDigitStr(val) THEN <<PyInt(2), PyStr(val)>>
             ELSE <<PyInt(3), PyStr(val)>>

FloorRank(v) ==
    IF IsNone(v) \/ Strip(v.text) = <<>> THEN <<PyInt(0), PyStr(<<>>)>>
    ELSE LET val == Strip(Upper(v.text))
         IN  IF val \in SpecialFloors THEN <<PyInt(1), PyStr(val)>>
             ELSE IF IsDigitStr(val) THEN <<PyInt(2), PyInt(IntOf(val))>>
             ELSE <<PyInt(3), PyStr(val)>>

\* smallest position >= j that holds no digit (greedy \d+)
DigitsEnd(s, j) == Min({k \in j..(Len(s) + 1) : k = Len(s) + 1 \/ ~IsDigit(s[k])})

\* smallest position >= j that holds no upper-case letter (greedy [A-Z]*)
UpperEnd(s, j) == Min({k \in j..(Len(s) + 1) : k = Len(s) + 1 \/ s[k] \notin UpperLetters})

\* _room_rank without the upper-casing
RoomRank_NoUpper(v) ==
    IF IsNone(v) \/ Strip(v.text) = <<>> THEN <<PyInt(0), PyStr(<<>>), PyStr(<<>>)>>
    ELSE LET val == Strip(v.text)
             d   == DigitsEnd(val, 1)
         IN  IF d > 1
             THEN <<PyInt(1), PyInt(IntOf(SubSeq(val, 1, d - 1))),
                    PyStr(SubSeq(val, d, UpperEnd(val, d) - 1))>>
             ELSE <<PyInt(2), PyStr(val), PyStr(<<>>)>>

RoomRank(v) ==
    IF IsNone(v) \/ Strip(v.text) = <<>> THEN <<PyInt(0), PyStr(<<>>), PyStr(<<>>)>>
    ELSE LET val == Strip(Upper(v.text))
             d   == DigitsEnd(val, 1)
         IN  IF d > 1
             THEN <<PyInt(1), PyInt(IntOf(SubSeq(val, 1, d - 1))),
                    PyStr(SubSeq(val, d, UpperEnd(val, d) - 1))>>
             ELSE <<PyInt(2), PyStr(val), PyStr(<<>>)>>

BUILDING_ORDER == << <<"E", "T", "B">>, <<"W", "E", "B">>, <<"H", "E", "B">>, <<>> >>

\* _building_rank giving an unknown code the rank of blank
BuildingRank_UnknownAsBlank(v) ==
    LET val == IF IsNone(v) \/ v.text = <<>> THEN <<>> ELSE Strip(Upper(v.text))
    IN  IF \E i \in 1..Len(BUILDING_ORDER) : BUILDING_ORDER[i] = val
        THEN (CHOOSE i \in 1..Len(BUILDING_ORDER) : BUILDING_ORDER[i] = val) - 1
        ELSE Len(BUILDING_ORDER) - 1

BuildingRank(v) ==
    LET val == IF IsNone(v) \/ v.text = <<>> THEN <<>> ELSE Strip(Upper(v.text))
    IN  IF \E i \in 1..Len(BUILDING_ORDER) : BUILDING_ORDER[i] = val
        THEN (CHOOSE i \in 1..Len(BUILDING_ORDER) : BUILDING_ORDER[i] = val) - 1
        ELSE IF val = <<>> THEN Len(BUILDING_ORDER)
        ELSE Len(BUILDING_ORDER) + 1

----------------------------------------------------------------------------
(* Inputs of the rank functions *)

\* the longest generated label
MaxLabelLen == 2

LabelAlphabet == {" ", "1", "2", "B", "M"}

NamedLabels ==
    { <<"L", "L">>, <<"s", "f">>, <<"S", "F">>, <<"1", "0">>, <<"0", "2">>, <<"2", "A">>,
      <<"H", "a", "l", "l", "w", "a", "y", " ", "A">>, <<"3", "1", "0">>,
      <<"L", "o", "b", "b", "y">>, <<"S", "t", "a", "i", "r", "w", "e", "l", "l">>,
      <<"E", "l", "e", "v", "a", "t", "o", "r", " ", "2">>, <<"1", "2", "B">>,
      <<"E", "T", "B">>, <<"w", "e", "b">>, <<"W", "E", "B">>, <<" ", "H", "E", "B", " ">>,
      <<"X", "Y", "Z">>, <<"2", " ", "H", "a", "l", "l", "w", "a", "y">> }

Labels ==
    {Str(s) : s \in UNION {[1..k -> LabelAlphabet] : k \in 0..MaxLabelLen}}
    \cup {Str(s) : s \in NamedLabels}
    \cup {[type |-> "None", text |-> <<>>]}

----------------------------------------------------------------------------
(* The ranking of two labels *)

InitRank ==
    /\ pc = "rank"
    /\ label_a \in Labels
    /\ label_b \in Labels
    /\ ranks = <<>>
    /\ ExtractIdle /\ PrepareIdle /\ DaysIdle /\ BatchIdle

Rank ==
    /\ pc = "rank"
    /\ pc' = "ranked"
    /\ ranks' = [floor_a    |-> FloorRank(label_a),    floor_b    |-> FloorRank(label_b),
                 room_a     |-> RoomRank(label_a),     room_b     |-> RoomRank(label_b),
                 building_a |-> BuildingRank(label_a), building_b |-> BuildingRank(label_b)]
    /\ UNCHANGED <<label_a, label_b, extractVars, prepareVars, daysVars, batchVars>>

NextRank == Rank

SpecRank == InitRank /\ [][NextRank]_vars

----------------------------------------------------------------------------
(* Properties of the rank functions *)

Ranked == pc = "ranked"

\* a label upper-cased and trimmed, None read as blank
Norm(v) == IF IsNone(v) THEN <<>> ELSE Strip(Upper(v.text))

SpecialOrder == << <<"B">>, <<"L", "L">>, <<"S", "F">> >>

IsSpecial(n) == \E i \in 1..Len(SpecialOrder) : SpecialOrder[i] = n

SpecialIndex(n) == CHOOSE i \in 1..Len(SpecialOrder) : SpecialOrder[i] = n

AllDigits(n) == n # <<>> /\ \A i \in 1..Len(n) : n[i] \in Digits

\* the tier the claim gives a floor label
ClaimFloorTier(v) ==
    IF Norm(v) = <<>> THEN 0
    ELSE IF IsSpecial(Norm(v)) THEN 1
    ELSE IF AllDigits(Norm(v)) THEN 2
    ELSE 3

\* floor label a sorts strictly before floor label b, by the claim
ClaimFloorBefore(a, b) ==
    \/ ClaimFloorTier(a) < ClaimFloorTier(b)
    \/ /\ ClaimFloorTier(a) = ClaimFloorTier(b)
       /\ \/ ClaimFloorTier(a) = 1 /\ SpecialIndex(Norm(a)) < SpecialIndex(Norm(b))
          \/ ClaimFloorTier(a) = 2 /\ IntOf(Norm(a)) < IntOf(Norm(b))
          \/ ClaimFloorTier(a) = 3 /\ StrLess(Norm(a), Norm(b))

\* C6: _floor_rank orders by tier (blank, then B/LL/SF alphabetically, then
\* all-digit floors by integer value, then other tokens alphabetically), and
\* two labels rank equal only when they are equal after upper-casing and
\* trimming or denote the same integer.
C6_FloorRankOrder ==
    Ranked =>
        /\ ranks.floor_a[1] = PyInt(ClaimFloorTier(label_a))
        /\ TupleLess(ranks.floor_a, ranks.floor_b) <=> ClaimFloorBefore(label_a, label_b)
        /\ ranks.floor_a = ranks.floor_b =>
              \/ Norm(label_a) = Norm(label_b)
              \/ /\ AllDigits(Norm(label_a)) /\ AllDigits(Norm(label_b))
                 /\ IntOf(Norm(label_a)) = IntOf(Norm(label_b))

C6_Witness ==
    /\ Ranked
    /\ label_a = Str(<<"2">>)
    /\ label_b = Str(<<"1", "0">>)
    /\ TupleLess(ranks.floor_a, ranks.floor_b)

CommonAreaWords ==
    { <<"H", "A", "L", "L", "W", "A", "Y">>, <<"S", "T", "A", "I", "R", "W", "E", "L", "L">>,
      <<"E", "L", "E", "V", "A", "T", "O", "R">> }

IsCommonArea(v) == Norm(v) # <<>> /\ ContainsAny(Norm(v), CommonAreaWords)

LeadingDigit(v) == Norm(v) # <<>> /\ Norm(v)[1] \in Digits

NonNumeric(v) == Norm(v) # <<>> /\ Norm(v)[1] \notin Digits

\* C7 as stated: a common-area room label ranks strictly after every
\* leading-digit room and after every other non-numeric label.
C7_CommonAreaLastBucket ==
    (Ranked /\ IsCommonArea(label_a)) =>
        /\ LeadingDigit(label_b) => TupleLess(ranks.room_b, ranks.room_a)
        /\ (NonNumeric(label_b) /\ ~IsCommonArea(label_b))
              => TupleLess(ranks.room_b, ranks.room_a)

\* C7 amended: _room_rank has no common-area bucket. A non-blank label that
\* does not start with a digit ranks strictly after every leading-digit room
\* ("Hallway A" after "310"), and among themselves such labels, common-area
\* or not, are ordered alphabetically by their upper-cased, trimmed text; a
\* label that starts with a digit ranks as a numbered room even when it
\* names a common area.
C7_CommonAreaSharesTier ==
    (Ranked /\ NonNumeric(label_a)) =>
        /\ ranks.room_a[1] = PyInt(2)
        /\ LeadingDigit(label_b) =>
              ranks.room_b[1] = PyInt(1) /\ TupleLess(ranks.room_b, ranks.room_a)
        /\ NonNumeric(label_b) =>
              (TupleLess(ranks.room_a, ranks.room_b) <=> StrLess(Norm(label_a), Norm(label_b)))

C7_Witness ==
    /\ Ranked
    /\ label_a = Str(<<"H", "a", "l", "l", "w", "a", "y", " ", "A">>)
    /\ label_b = Str(<<"3", "1", "0">>)
    /\ TupleLess(ranks.room_b, ranks.room_a)

\* the place the claim gives a building value
ClaimBuildingClass(v) ==
    IF Norm(v) = <<"E", "T", "B">> THEN 0
    ELSE IF Norm(v) = <<"W", "E", "B">> THEN 1
    ELSE IF Norm(v) = <<"H", "E", "B">> THEN 2
    ELSE IF Norm(v) = <<>> THEN 3
    ELSE 4

\* C8: _building_rank orders ETB < WEB < HEB < blank < every other code,
\* after upper-casing and trimming; all other codes share one rank.
C8_BuildingRankOrder ==
    Ranked =>
        /\ ranks.building_a < ranks.building_b
              <=> ClaimBuildingClass(label_a) < ClaimBuildingClass(label_b)
        /\ ranks.building_a = ranks.building_b
              <=> ClaimBuildingClass(label_a) = ClaimBuildingClass(label_b)

C8_Witness ==
    /\ Ranked
    /\ label_a = Str(<<" ", " ">>)
    /\ label_b = Str(<<"X", "Y", "Z">>)
    /\ ranks.building_a < ranks.building_b

----------------------------------------------------------------------------
(* prepare_dataframe: the derived columns and the sort *)

NaN == [type |-> "float", text |-> <<>>]

DottedBuildings ==
    << <<"E", ".", "T", ".", "B">>, <<"W", ".", "E", ".", "B">>, <<"H", ".", "E", ".", "B">> >>

\* _normalize_building for one cell of the building column
NormalizeBuilding(has_building, cell) ==
    IF ~has_building THEN <<>>
    ELSE LET s == IF cell.type # "str" THEN <<>> ELSE Strip(Upper(cell.text))
         IN  IF \E i \in 1..Len(DottedBuildings) : DottedBuildings[i] = s
             THEN BUILDING_ORDER[CHOOSE i \in 1..Len(DottedBuildings) : DottedBuildings[i] = s]
             ELSE s

\* row i of the table with its derived columns; src is the row's place in
\* the input
Enrich(fr, i) ==
    [src         |-> i,
     Building    |-> NormalizeBuilding(fr.has_building, fr.rows[i].Building),
     Floor       |-> ExtractFloorRoom(fr.rows[i].Description).floor,
     Room        |-> ExtractFloorRoom(fr.rows[i].Description).room,
     Description |-> fr.rows[i].Description]

\* the three helper columns of a row
SortKey(r) ==
    [building |-> BuildingRank(Str(r.Building)),
     floor    |-> FloorRank(Str(r.Floor)),
     room     |-> RoomRank(Str(r.Room))]

\* the sort by the first column only
KeyLess_BuildingOnly(k1, k2) == k1.building < k2.building

\* by = [__building_rank, __floor_rank, __room_rank]: the columns compared
\* in this order
KeyLess(k1, k2) ==
    \/ k1.building < k2.building
    \/ /\ k1.building = k2.building
       /\ \/ TupleLess(k1.floor, k2.floor)
          \/ k1.floor = k2.floor /\ TupleLess(k1.room, k2.room)

\* x put behind the rows of a sorted table that do not sort after it
InsertRow(sorted, x) ==
    LET k == Cardinality({i \in 1..Len(sorted) : ~KeyLess(SortKey(x), SortKey(sorted[i]))})
    IN  SubSeq(sorted, 1, k) \o <<x>> \o SubSeq(sorted, k + 1, Len(sorted))

RECURSIVE SortValues(_)
\* DataFrame.sort_values on several columns: ascending and stable
SortValues(rows) ==
    IF Len(rows) = 0 THEN <<>>
    ELSE InsertRow(SortValues(SubSeq(rows, 1, Len(rows) - 1)), rows[Len(rows)])

\* a table without a description column is refused; on a table without
\* rows the unpacking of zip(*...) into Floor and Room raises
PrepareDataframe(fr) ==
    IF ~fr.has_desc THEN [status |-> "ValueError", rows |-> <<>>]
    ELSE IF Len(fr.rows) = 0 THEN [status |-> "ValueError", rows |-> <<>>]
    ELSE [status |-> "ok", rows |-> SortValues([i \in 1..Len(fr.rows) |-> Enrich(fr, i)])]

----------------------------------------------------------------------------
(* Inputs of prepare_dataframe *)

\* the most rows of a generated table
MaxRows == 3

Row(building, text) == [Building |-> building, Description |-> text]

\* the rows generated tables are made of
RowChoices ==
    << Row(Str(<<"E", "T", "B">>), Str(Join(<<Word(1), Word(4)>>))),
       Row(Str(<<"E", "T", "B">>), Str(Join(<<Word(2), Word(4)>>))),
       Row(Str(<<"w", "e", "b">>), Str(Join(<<Word(3), Word(12)>>))),
       Row(NaN, Str(Scenario2)),
       Row(Str(<<"X", "Y", "Z">>), Str(Word(11))),
       Row(Str(<<"E", ".", "T", ".", "B">>), Str(Join(<<Word(3), Word(7), Word(2), Word(6)>>))),
       Row(Str(<<" ", "H", "E", "B", " ">>), NaN),
       Row(Str(<<"E", "T", "B">>), Str(Word(15))) >>

\* the end-to-end scenario: four descriptions, no building column
ScenarioFrame ==
    [has_desc |-> TRUE, has_building |-> FALSE,
     rows |-> [i \in 1..Len(ScenarioDescriptions) |-> Row(NaN, Str(ScenarioDescriptions[i]))]]

\* one building and one room on the floors "", B, 2, SF, 1
FloorDescriptions ==
    << <<"R", "m", ":", " ", "B", "1", "2">>,
       <<"F", "l", "o", "o", "r", ":", " ", "B", " ", "R", "m", ":", " ", "B", "1", "2">>,
       <<"F", "l", "o", "o", "r", ":", " ", "2", " ", "R", "m", ":", " ", "B", "1", "2">>,
       <<"F", "l", "o", "o", "r", ":", " ", "S", "F", " ", "R", "m", ":", " ", "B", "1", "2">>,
       <<"F", "l", "o", "o", "r", ":", " ", "1", " ", "R", "m", ":", " ", "B", "1", "2">> >>

FloorsFrame ==
    [has_desc |-> TRUE, has_building |-> TRUE,
     rows |-> [i \in 1..Len(FloorDescriptions) |->
                  Row(Str(<<"E", "T", "B">>), Str(FloorDescriptions[i]))]]

GeneratedRows ==
    {[i \in DOMAIN cs |-> RowChoices[cs[i]]] :
        cs \in UNION {[1..k -> 1..Len(RowChoices)] : k \in 0..MaxRows}}

Frames ==
    {[has_desc |-> TRUE, has_building |-> hb, rows |-> rs] : hb \in BOOLEAN, rs \in GeneratedRows}
    \cup {[has_desc |-> FALSE, has_building |-> TRUE, rows |-> rs] :
             rs \in {r \in GeneratedRows : Len(r) <= 1}}
    \cup {ScenarioFrame, FloorsFrame}

----------------------------------------------------------------------------
(* One run of prepare_dataframe *)

InitPrepare ==
    /\ pc = "prepare"
    /\ frame \in Frames
    /\ result = <<>>
    /\ ExtractIdle /\ RankIdle /\ DaysIdle /\ BatchIdle

Prepare ==
    /\ pc = "prepare"
    /\ pc' = "prepared"
    /\ result' = PrepareDataframe(frame)
    /\ UNCHANGED <<frame, extractVars, rankVars, daysVars, batchVars>>

NextPrepare == Prepare

SpecPrepare == InitPrepare /\ [][NextPrepare]_vars

----------------------------------------------------------------------------
(* Properties of prepare_dataframe *)

Prepared == pc = "prepared" /\ result.status = "ok"

\* the column col of the returned table, top to bottom
OutFloors == [p \in 1..Len(result.rows) |-> result.rows[p].Floor]

\* the place in the returned table of input row i
PlaceOf(i) == CHOOSE p \in 1..Len(result.rows) : result.rows[p].src = i

\* the Floor values of the input rows, in input order
FloorsInInputOrder == [i \in 1..Len(frame.rows) |-> result.rows[PlaceOf(i)].Floor]

\* C4: the four scenario descriptions, in order, yield the floors
\* ["2", "11", "", "B"], and the third yields an empty room too.
C4_ScenarioFloors ==
    (Prepared /\ frame = ScenarioFrame) =>
        /\ FloorsInInputOrder = << <<"2">>, <<"1", "1">>, <<>>, <<"B">> >>
        /\ result.rows[PlaceOf(3)].Room = <<>>

IsNumericFloor(f) == f # <<>> /\ \A i \in 1..Len(f) : f[i] \in Digits

SameBuilding(p, q) == result.rows[p].Building = result.rows[q].Building

\* C5 as stated: the floors "", B, 2, SF, 1 of one building and room come out
\* as "", B, 1, 2, SF, and every numeric floor sorts before SF.
C5_SubFloorLast ==
    Prepared =>
        /\ frame = FloorsFrame => OutFloors = << <<>>, <<"B">>, <<"1">>, <<"2">>, <<"S", "F">> >>
        /\ \A p, q \in 1..Len(result.rows) :
              (SameBuilding(p, q) /\ IsNumericFloor(result.rows[p].Floor)
                  /\ result.rows[q].Floor = <<"S", "F">>) => p < q

\* C5 amended: the floors "", B, 2, SF, 1 of one building and room come out
\* as "", B, SF, 1, 2: blank first, then basement, then the sub-floor SF,
\* then the numeric floors ascending; every numeric floor of a building
\* sorts after its SF floor.
C5_SubFloorBeforeNumeric ==
    Prepared =>
        /\ frame = FloorsFrame => OutFloors = << <<>>, <<"B">>, <<"S", "F">>, <<"1">>, <<"2">> >>
        /\ \A p, q \in 1..Len(result.rows) :
              (SameBuilding(p, q) /\ IsNumericFloor(result.rows[p].Floor)
                  /\ result.rows[q].Floor = <<"S", "F">>) => q < p

C5_Witness ==
    /\ Prepared
    /\ frame = FloorsFrame
    /\ result.rows[3].Floor = <<"S", "F">>
    /\ result.rows[3].src = 4

\* the composite key of a returned row, compared as the claim says:
\* building rank, then floor rank, then room rank
ClaimKey(r) ==
    <<BuildingRank(Str(r.Building)), FloorRank(Str(r.Floor)), RoomRank(Str(r.Room))>>

ClaimKeyLess(r1, r2) ==
    \/ ClaimKey(r1)[1] < ClaimKey(r2)[1]
    \/ ClaimKey(r1)[1] = ClaimKey(r2)[1] /\ TupleLess(ClaimKey(r1)[2], ClaimKey(r2)[2])
    \/ /\ ClaimKey(r1)[1] = ClaimKey(r2)[1] /\ ClaimKey(r1)[2] = ClaimKey(r2)[2]
       /\ TupleLess(ClaimKey(r1)[3], ClaimKey(r2)[3])

\* C9: the returned rows are a permutation of the input rows, non-decreasing
\* in (building rank, floor rank, room rank), rows of equal key keep their
\* input order, and sorting the result again changes nothing.
C9_StableSortedPermutation ==
    Prepared =>
        /\ Len(result.rows) = Len(frame.rows)
        /\ {result.rows[p].src : p \in 1..Len(result.rows)} = 1..Len(frame.rows)
        /\ \A p \in 1..Len(result.rows) : result.rows[p] = Enrich(frame, result.rows[p].src)
        /\ \A p, q \in 1..Len(result.rows) :
              p < q =>
                  /\ ~ClaimKeyLess(result.rows[q], result.rows[p])
                  /\ ClaimKey(result.rows[p]) = ClaimKey(result.rows[q])
                        => result.rows[p].src < result.rows[q].src
        /\ SortValues(result.rows) = result.rows

C9_Witness ==
    /\ Prepared
    /\ frame.has_building
    /\ frame.rows = <<RowChoices[5], RowChoices[2], RowChoices[1]>>
    /\ [p \in 1..3 |-> result.rows[p].src] = <<2, 3, 1>>
    /\ ClaimKey(result.rows[1]) = ClaimKey(result.rows[2])

----------------------------------------------------------------------------
(* _business_days and calculate_business_days *)

\* a pandas Timestamp: a day number (day 0 is 1970-01-01) and an hour, or NaT
Ts(d, h) == [nat |-> FALSE, day |-> d, hour |-> h]

NaT == [nat |-> TRUE, day |-> 0, hour |-> 0]

\* Timestamp.date()
DateOf(ts) == ts.day

\* numpy's day of the week, 0 for Monday: day 0 was a Thursday
DayOfWeek(d) == (d + 3) % 7

\* numpy's default weekmask "1111100", Monday first
Weekmask == <<TRUE, TRUE, TRUE, TRUE, TRUE, FALSE, FALSE>>

BusdaysInWeekmask == Cardinality({i \in 1..7 : Weekmask[i]})

RECURSIVE CountDays(_, _, _)
\* the days from b up to but excluding e that the weekmask admits, counted
\* one by one
CountDays(b, e, dow) ==
    IF b >= e THEN 0
    ELSE (IF Weekmask[dow + 1] THEN 1 ELSE 0) + CountDays(b + 1, e, (dow + 1) % 7)

\* the count with the end day taken in
BusdayCount_EndInclusive(b, e) ==
    IF b > e THEN 0 - CountDays(e, b, DayOfWeek(e))
    ELSE CountDays(b, e + 1, DayOfWeek(b))

\* np.busday_count(b, e) without holidays: whole weeks first, the rest day
\* by day; a reversed range is counted from e + 1 to b + 1 and negated
BusdayCount(b, e) ==
    IF b = e THEN 0
    ELSE LET lo    == IF b > e THEN e + 1 ELSE b
             hi    == IF b > e THEN b + 1 ELSE e
             weeks == (hi - lo) \div 7
             count == weeks * BusdaysInWeekmask
                      + CountDays(lo + 7 * weeks, hi, DayOfWeek(lo + 7 * weeks))
         IN  IF b > e THEN 0 - count ELSE count

None == [none |-> TRUE, n |-> 0]

Some(n) == [none |-> FALSE, n |-> n]

\* _business_days
BusinessDays(s, e) ==
    IF s.nat THEN None ELSE Some(BusdayCount(DateOf(s), DateOf(e)))

\* calculate_business_days: the count, with "or 0" for a count of 0
CalculateBusinessDays(s, e) ==
    IF s.nat THEN None
    ELSE LET n == BusdayCount(DateOf(s), DateOf(e)) IN IF n # 0 THEN Some(n) ELSE Some(0)

----------------------------------------------------------------------------
(* Inputs of the age computation *)

\* generated timestamps lie at most this many days before or after day 0
MaxDay == 10

Hours == {0, 13}

Timestamps == {Ts(d, h) : d \in (0 - MaxDay)..MaxDay, h \in Hours}

----------------------------------------------------------------------------
(* The age of one work order *)

InitDays ==
    /\ pc = "age"
    /\ start \in Timestamps \cup {NaT}
    /\ end \in Timestamps
    /\ age = <<>>
    /\ ExtractIdle /\ RankIdle /\ PrepareIdle /\ BatchIdle

Age ==
    /\ pc = "age"
    /\ pc' = "aged"
    /\ age' = [main |-> BusinessDays(start, end), formatter |-> CalculateBusinessDays(start, end)]
    /\ UNCHANGED <<start, end, extractVars, rankVars, prepareVars, batchVars>>

NextDays == Age

SpecDays == InitDays /\ [][NextDays]_vars

----------------------------------------------------------------------------
(* Properties of the age computation *)

\* the calendar: 1970-01-01, day 0, was a Thursday
DayNames == <<"Thu", "Fri", "Sat", "Sun", "Mon", "Tue", "Wed">>

DayName(d) == DayNames[(d % 7) + 1]

\* the dates d with first <= d < last that fall on Monday to Friday
WeekdaysBetween(first, last) == {d \in first..(last - 1) : DayName(d) \notin {"Sat", "Sun"}}

\* C10: for dates start <= end both functions return the number of Monday
\* to Friday dates d with start <= d < end: 5 from a Monday to the next
\* Monday, 0 for start = end.
C10_BusinessDays ==
    (pc = "aged" /\ ~start.nat /\ start.day <= end.day) =>
        /\ age.main = Some(Cardinality(WeekdaysBetween(start.day, end.day)))
        /\ age.formatter = age.main
        /\ (DayName(start.day) = "Mon" /\ end.day = start.day + 7) => age.main = Some(5)
        /\ start.day = end.day => age.main = Some(0)

C10_Witness ==
    /\ pc = "aged"
    /\ DayName(start.day) = "Mon"
    /\ end.day = start.day + 7
    /\ age.main = Some(5)
    /\ age.formatter = Some(5)

----------------------------------------------------------------------------
(* aim_formatter: extraction and rank keys of the worksheet pipeline *)

\* (?:kw)\s*([A-Za-z0-9]+) tried at position i with one keyword (upper case,
\* colon included): the captured group, or <<>> when there is no match
ColonGroupAt(s, i, kw) ==
    IF ~LiteralAt(s, i, kw) THEN <<>>
    ELSE LET j == SkipSpaces(s, i + Len(kw)) IN SubSeq(s, j, AlnumEnd(s, j) - 1)

\* re.search(r"(?:k1|k2)\s*([A-Za-z0-9]+)", s, re.IGNORECASE): group(1) of
\* the leftmost match, <<>> for no match; at one position the keywords are
\* tried in pattern order
SearchColonMarker(s, kws) ==
    LET Pick(i, hits) == IF hits = {} THEN <<>> ELSE ColonGroupAt(s, i, kws[Min(hits)])
        At(i)         == Pick(i, {n \in 1..Len(kws) : ColonGroupAt(s, i, kws[n]) # <<>>})
        First(found)  == IF found = {} THEN <<>> ELSE At(Min(found))
    IN  First({i \in 1..Len(s) : At(i) # <<>>})

\* aim_formatter.extract_floor_room
extract_floor_room(d) ==
    LET \* the dict called mapping
        mapping == [c \in Digits |-> IF c = "0" THEN <<"B">> ELSE <<c>>]
        \* fallback from room number
        Fallback(room) ==
            IF Len(room) >= 4 /\ IsDigitStr(SubSeq(room, 1, 2))
               /\ SubSeq(room, 1, 2) \in HighRisePrefixes
            THEN SubSeq(room, 1, 2)
            ELSE IF room[1] \in DOMAIN mapping THEN mapping[room[1]] ELSE <<>>
        Canonical(f) ==
            IF Upper(f) = <<"S", "F">> THEN <<"S", "F">>
            ELSE IF f \in { <<"0">>, <<"B">> } THEN <<"B">> ELSE f
        Result(floor, room) ==
            [floor |-> Canonical(IF floor = <<>> /\ room # <<>> THEN Fallback(room) ELSE floor),
             room  |-> room]
        Search(desc) ==
            Result(SearchColonMarker(desc, << <<"F", "L", "O", "O", "R", ":">>, <<"F", "L", "R", ":">> >>),
                   SearchColonMarker(desc, << <<"R", "O", "O", "M", ":">>, <<"R", "M", ":">> >>))
    IN  IF d.type # "str" \/ d.text = <<>>
        THEN [floor |-> <<>>, room |-> <<>>]
        ELSE Search(Strip(d.text))

\* part (given in upper case) in s, ignoring case
Contains(s, part) == \E i \in 1..Len(s) : LiteralAt(s, i, part)

\* aim_formatter.floor_rank
floor_rank(v) ==
    LET Of(u) == IF u = <<"B">> THEN 0
                 ELSE IF u = <<"S", "F">> THEN 99
                 ELSE IF IsDigitStr(u) THEN IntOf(u) ELSE 999
    IN  IF Strip(v) = <<>> THEN 999 ELSE Of(Strip(Upper(v)))

\* aim_formatter.room_rank
room_rank(v) ==
    LET Of(val) == IF \E x \in { <<"H", "A", "L", "L">>, <<"S", "T", "R">>, <<"E", "L", "E", "V">> } : Contains(val, x) THEN 700000
                   ELSE IF DigitsEnd(val, 1) > 1
                        THEN IntOf(SubSeq(val, 1, DigitsEnd(val, 1) - 1)) ELSE 600000
    IN  IF Strip(v) = <<>> THEN 999999 ELSE Of(Strip(Upper(v)))

----------------------------------------------------------------------------
(* pd.to_datetime on the cells of a date column *)

\* the month lengths of 1970
DaysInMonth == <<31, 28, 31, 30, 31, 30, 31, 31, 30, 31, 30, 31>>

RECURSIVE DaysBeforeMonth(_)
DaysBeforeMonth(m) == IF m <= 1 THEN 0 ELSE DaysBeforeMonth(m - 1) + DaysInMonth[m - 1]

\* the texts pandas reads as a date, for the texts of the model's tables:
\* ISO dates (YYYY-MM-DD) of 1970 are dates, a text with no date in it is
\* none
IsDateText(s) ==
    /\ Len(s) = 10
    /\ s[5] = "-" /\ s[8] = "-"
    /\ \A i \in {1, 2, 3, 4, 6, 7, 9, 10} : IsDigit(s[i])
    /\ SubSeq(s, 1, 4) = <<"1", "9", "7", "0">>
    /\ IntOf(SubSeq(s, 6, 7)) \in 1..12
    /\ IntOf(SubSeq(s, 9, 10)) \in 1..DaysInMonth[IntOf(SubSeq(s, 6, 7))]

\* the Timestamp of a date text: midnight of its day (day 0 is 1970-01-01)
DateTextTs(s) == Ts(DaysBeforeMonth(IntOf(SubSeq(s, 6, 7))) + IntOf(SubSeq(s, 9, 10)) - 1, 0)

\* pd.to_datetime of one cell: a missing value gives NaT, a date text its
\* Timestamp; any other text gives NaT under errors="coerce" and raises
\* without it
ToDatetime(cell, coerce) ==
    IF cell.type # "str" THEN [raised |-> FALSE, ts |-> NaT]
    ELSE IF IsDateText(cell.text) THEN [raised |-> FALSE, ts |-> DateTextTs(cell.text)]
    ELSE [raised |-> ~coerce, ts |-> NaT]

----------------------------------------------------------------------------
(* Column lookup and column assignment on a DataFrame *)

\* the place of the first x in a list, 0 when it has none
IndexOf(seq, x) ==
    LET hits == {k \in 1..Len(seq) : seq[k] = x}
    IN  IF hits = {} THEN 0 ELSE Min(hits)

\* find_col of run_aim_formatter: the place of the first column whose name
\* contains part (given in upper case) ignoring case, 0 for None
find_col(columns, part) ==
    LET hits == {k \in 1..Len(columns) : Contains(columns[k], part)}
    IN  IF hits = {} THEN 0 ELSE Min(hits)

\* _find_column: the search terms in order, for each the first column that
\* contains it
FindColumn(columns, terms) ==
    LET hits == {n \in 1..Len(terms) : find_col(columns, terms[n]) # 0}
    IN  IF hits = {} THEN 0 ELSE find_col(columns, terms[Min(hits)])

RECURSIVE AssignColumns(_, _)
\* df[name] = ... for each of the names in turn: an existing column is
\* overwritten in place, a new one is put behind the last
AssignColumns(columns, names) ==
    IF names = <<>> THEN columns
    ELSE AssignColumns(IF IndexOf(columns, Head(names)) # 0 THEN columns
                       ELSE Append(columns, Head(names)),
                       Tail(names))

\* the columns that are not among names, in their order
Without(columns, names) ==
    LET Keep(c) == \A k \in 1..Len(names) : names[k] # c
    IN  SelectSeq(columns, Keep)

----------------------------------------------------------------------------
(* prepare_dataframe on a CSV table: the rows, their ages and the columns *)

DescriptionTerms == << <<"D", "E", "S", "C", "R", "I", "P", "T", "I", "O", "N">>, <<"D", "E", "S", "C">> >>

DateCreatedTerms == << <<"D", "A", "T", "E", " ", "C", "R", "E", "A", "T", "E", "D">>, <<"C", "R", "E", "A", "T", "E", "D">> >>

EditDateTerms == << <<"E", "D", "I", "T", " ", "D", "A", "T", "E">>, <<"L", "A", "S", "T", " ", "U", "P", "D", "A", "T", "E", "D">>, <<"M", "O", "D", "I", "F", "I", "E", "D">> >>

BuildingTerms == << <<"B", "U", "I", "L", "D", "I", "N", "G">>, <<"P", "R", "O", "P", "E", "R", "T", "Y">>, <<"F", "A", "C", "I", "L", "I", "T", "Y">> >>

AgeWorkDays == <<"A", "g", "e", " ", "(", "W", "o", "r", "k", " ", "D", "a", "y", "s", ")">>

InspectionStatus == <<"I", "n", "s", "p", "e", "c", "t", "i", "o", "n", " ", "S", "t", "a", "t", "u", "s">>

Required == << <<"B", "u", "i", "l", "d", "i", "n", "g">>, <<"F", "l", "o", "o", "r">>, <<"R", "o", "o", "m">>, AgeWorkDays, InspectionStatus >>

RankColumns == << <<"_", "_", "b", "u", "i", "l", "d", "i", "n", "g", "_", "r", "a", "n", "k">>, <<"_", "_", "f", "l", "o", "o", "r", "_", "r", "a", "n", "k">>, <<"_", "_", "r", "o", "o", "m", "_", "r", "a", "n", "k">> >>

\* what PrepareDataframe reads of the table: the description column and the
\* building column
FrameOf(tb) ==
    LET Frame(desc_col, building_col) ==
            [has_desc     |-> desc_col # 0,
             has_building |-> building_col # 0,
             rows |-> [i \in 1..Len(tb.rows) |->
                          Row(IF building_col # 0 THEN tb.rows[i][building_col] ELSE NaN,
                              IF desc_col # 0 THEN tb.rows[i][desc_col] ELSE NaN)]]
    IN  Frame(FindColumn(tb.columns, DescriptionTerms), FindColumn(tb.columns, BuildingTerms))

\* the column the age is taken from: the creation date, else the edit date,
\* else none (0)
DateForAge(columns) ==
    LET Choose(date_created_col, edit_date_col) ==
            IF date_created_col # 0 THEN date_created_col ELSE edit_date_col
    IN  Choose(FindColumn(columns, DateCreatedTerms), FindColumn(columns, EditDateTerms))

\* the column "Age (Work Days)", by input row
AgeWorkDaysColumn(tb) ==
    LET Ages(date_col) ==
            [i \in 1..Len(tb.rows) |->
                IF date_col = 0 THEN None
                ELSE BusinessDays(ToDatetime(tb.rows[i][date_col], TRUE).ts, tb.today)]
    IN  Ages(DateForAge(tb.columns))

\* df[c].notna().any() for a column of the table after the derived columns
\* were set and the date columns were normalized; of the cells of a CSV
\* column the texts are not NA
NotEmpty(tb, c) ==
    IF c = AgeWorkDays THEN \E i \in 1..Len(tb.rows) : ~AgeWorkDaysColumn(tb)[i].none
    ELSE IF IndexOf(Required, c) # 0 THEN Len(tb.rows) > 0
    ELSE LET Filled(k) ==
                 IF k \in {FindColumn(tb.columns, DateCreatedTerms),
                           FindColumn(tb.columns, EditDateTerms)}
                 THEN \E i \in 1..Len(tb.rows) : ~ToDatetime(tb.rows[i][k], TRUE).ts.nat
                 ELSE \E i \in 1..Len(tb.rows) : tb.rows[i][k].type = "str"
         IN  Filled(IndexOf(tb.columns, c))

\* ordered_cols: the required columns, then the non-empty columns the table
\* had before the rank columns were added
OrderedCols(tb) ==
    LET Keep(c) == NotEmpty(tb, c)
    IN  Required \o Without(SelectSeq(AssignColumns(tb.columns, Required), Keep), Required)

\* the columns left in df by drop(columns=[the rank columns])
ColumnsAfterDrop(tb) ==
    Without(AssignColumns(AssignColumns(tb.columns, Required), RankColumns), RankColumns)

\* prepare_dataframe: PrepareDataframe gives the enriched, sorted rows; each
\* row gets its age, and df[ordered_cols] selects the columns (KeyError for
\* a column drop has removed)
prepare_dataframe(tb) ==
    LET Report(base, ordered_cols, left, ages) ==
            IF base.status # "ok" THEN [status |-> base.status, columns |-> <<>>, rows |-> <<>>]
            ELSE IF \E k \in 1..Len(ordered_cols) : IndexOf(left, ordered_cols[k]) = 0
            THEN [status |-> "KeyError", columns |-> <<>>, rows |-> <<>>]
            ELSE [status  |-> "ok",
                  columns |-> ordered_cols,
                  rows    |-> [p \in 1..Len(base.rows) |->
                                  [src         |-> base.rows[p].src,
                                   Building    |-> base.rows[p].Building,
                                   Floor       |-> base.rows[p].Floor,
                                   Room        |-> base.rows[p].Room,
                                   Description |-> base.rows[p].Description,
                                   Age         |-> ages[base.rows[p].src]]]]
    IN  Report(PrepareDataframe(FrameOf(tb)), OrderedCols(tb), ColumnsAfterDrop(tb),
               AgeWorkDaysColumn(tb))

----------------------------------------------------------------------------
(* run_aim_formatter on a CSV table: the DataFrame, the worksheet and the  *)
(* dropdown                                                                *)

WorkOrder == <<"W", "o", "r", "k", " ", "O", "r", "d", "e", "r">>

Description == <<"D", "e", "s", "c", "r", "i", "p", "t", "i", "o", "n">>

DateCreated == <<"D", "a", "t", "e", " ", "C", "r", "e", "a", "t", "e", "d">>

AgeDays == <<"A", "g", "e", " ", "(", "D", "a", "y", "s", ")">>

FloorRankColumn == <<"_", "_", "F", "l", "o", "o", "r", "R", "a", "n", "k">>

RoomRankColumn == <<"_", "_", "R", "o", "o", "m", "R", "a", "n", "k">>

Pending == <<"P", "e", "n", "d", "i", "n", "g">>

\* the derived columns in the order they are assigned
FormatterDerived ==
    << AgeDays, <<"F", "l", "o", "o", "r">>, <<"R", "o", "o", "m">>, FloorRankColumn, RoomRankColumn, InspectionStatus >>

\* the values of DataFrame and worksheet cells
Cell(c) == [type |-> c.type, text |-> c.text, n |-> 0]

TextCell(s) == [type |-> "str", text |-> s, n |-> 0]

IntCell(n) == [type |-> "int", text |-> <<>>, n |-> n]

NoneCell == [type |-> "None", text |-> <<>>, n |-> 0]

AgeCell(a) == IF a.none THEN NoneCell ELSE IntCell(a.n)

\* df.rename(columns={work_col: .., desc_col: .., date_col: ..}): a dict, so
\* of two entries for one column the later one stands
Renamed(columns) ==
    LET Rename(work_col, desc_col, date_col) ==
            [k \in 1..Len(columns) |->
                IF k = date_col THEN DateCreated
                ELSE IF k = desc_col THEN Description
                ELSE IF k = work_col THEN WorkOrder
                ELSE columns[k]]
    IN  Rename(find_col(columns, <<"W", "O", "R", "K">>), find_col(columns, <<"D", "E", "S", "C">>),
               find_col(columns, <<"D", "A", "T", "E">>))

\* the DataFrame's columns once the derived columns are assigned
FormatterColumns(tb) == AssignColumns(Renamed(tb.columns), FormatterDerived)

\* the cell pd.to_datetime(d) is applied to, for input row i
DateCell(tb, i) == tb.rows[i][IndexOf(Renamed(tb.columns), DateCreated)]

\* row i of the DataFrame once the derived columns are assigned
FormatterRow(tb, i) ==
    LET Cells(columns, renamed, fr, age_days) ==
            [k \in 1..Len(columns) |->
                IF columns[k] = InspectionStatus THEN TextCell(Pending)
                ELSE IF columns[k] = RoomRankColumn THEN IntCell(room_rank(fr.room))
                ELSE IF columns[k] = FloorRankColumn THEN IntCell(floor_rank(fr.floor))
                ELSE IF columns[k] = <<"R", "o", "o", "m">> THEN TextCell(fr.room)
                ELSE IF columns[k] = <<"F", "l", "o", "o", "r">> THEN TextCell(fr.floor)
                ELSE IF columns[k] = AgeDays THEN AgeCell(age_days)
                ELSE Cell(tb.rows[i][IndexOf(renamed, columns[k])])]
        Derive(renamed) ==
            Cells(FormatterColumns(tb), renamed,
                  extract_floor_room(tb.rows[i][IndexOf(renamed, Description)]),
                  CalculateBusinessDays(ToDatetime(DateCell(tb, i), FALSE).ts, tb.today))
    IN  Derive(Renamed(tb.columns))

\* by = ["__FloorRank", "__RoomRank"]: the columns compared in this order
FormatterKeyLess(columns, r1, r2) ==
    LET Less(f, r) == \/ r1[f].n < r2[f].n
                      \/ r1[f].n = r2[f].n /\ r1[r].n < r2[r].n
    IN  Less(IndexOf(columns, FloorRankColumn), IndexOf(columns, RoomRankColumn))

\* x put behind the entries of a sorted table that do not sort after it; an
\* entry is a row with its index label
FormatterInsert(columns, sorted, x) ==
    LET Put(k) == SubSeq(sorted, 1, k) \o <<x>> \o SubSeq(sorted, k + 1, Len(sorted))
    IN  Put(Cardinality({j \in 1..Len(sorted) :
                            ~FormatterKeyLess(columns, x.cells, sorted[j].cells)}))

RECURSIVE FormatterSort(_, _)
\* df.sort_values on the two rank columns: ascending and stable
FormatterSort(columns, entries) ==
    IF Len(entries) = 0 THEN <<>>
    ELSE FormatterInsert(columns, FormatterSort(columns, SubSeq(entries, 1, Len(entries) - 1)),
                         entries[Len(entries)])

\* the DataFrame after sort_values: columns, index labels and rows
FormatterFrame(tb) ==
    LET Frame(columns, sorted) ==
            [columns |-> columns,
             index   |-> [p \in 1..Len(sorted) |-> sorted[p].src],
             rows    |-> [p \in 1..Len(sorted) |-> sorted[p].cells]]
        Sorted(columns) ==
            Frame(columns,
                  FormatterSort(columns, [i \in 1..Len(tb.rows) |->
                                             [src |-> i, cells |-> FormatterRow(tb, i)]]))
    IN  Sorted(FormatterColumns(tb))

\* ws.append(headers), then ws.append(list(row.values)) for each row
WriteSheet(df) ==
    << [k \in 1..Len(df.columns) |-> TextCell(df.columns[k])] >> \o df.rows

\* a row without its cell number idx
RemoveAt(row, idx) ==
    IF idx \in 1..Len(row) THEN SubSeq(row, 1, idx - 1) \o SubSeq(row, idx + 1, Len(row)) ELSE row

\* ws.delete_cols(idx): the column leaves every row and the columns to its
\* right move one place left
delete_cols(ws, idx) == [r \in 1..Len(ws) |-> RemoveAt(ws[r], idx)]

\* the two deletions with the floor column deleted first
RemoveHelperCols_FloorFirst(ws, headers) ==
    delete_cols(delete_cols(ws, IndexOf(headers, FloorRankColumn)), IndexOf(headers, RoomRankColumn))

\* remove helper cols: room_idx and floor_idx are taken from headers, the
\* room column is deleted first
RemoveHelperCols(ws, headers) ==
    delete_cols(delete_cols(ws, IndexOf(headers, RoomRankColumn)), IndexOf(headers, FloorRankColumn))

\* the dropdown: insp_col is taken from headers, the range runs from row 2
\* to ws.max_row
Dropdown(ws, headers) ==
    [column |-> IndexOf(headers, InspectionStatus), first |-> 2, last |-> Len(ws)]

Raised(exception) == [status |-> exception, df |-> <<>>, ws |-> <<>>, dv |-> <<>>]

\* run_aim_formatter, up to the workbook it saves
run_aim_formatter(tb) ==
    LET Output(df, ws) == [status |-> "ok", df |-> df, ws |-> ws, dv |-> Dropdown(ws, df.columns)]
        \* headers is list(df.columns)
        Write(df)      == Output(df, RemoveHelperCols(WriteSheet(df), df.columns))
        Run(renamed)   ==
            IF IndexOf(renamed, DateCreated) = 0 \/ IndexOf(renamed, Description) = 0
            THEN Raised("KeyError")
            ELSE IF \E i \in 1..Len(tb.rows) : ToDatetime(DateCell(tb, i), FALSE).raised
            THEN Raised("ValueError")
            ELSE IF Len(tb.rows) = 0 THEN Raised("ValueError")
            ELSE IF ~tb.has_template THEN Raised("FileNotFoundError")
            ELSE Write(FormatterFrame(tb))
    IN  IF \E part \in { <<"W", "O", "R", "K">>, <<"D", "E", "S", "C">>, <<"D", "A", "T", "E">> } : find_col(tb.columns, part) = 0
        THEN Raised("ValueError")
        ELSE Run(Renamed(tb.columns))

----------------------------------------------------------------------------
(* CSV tables *)

\* the most rows of a generated CSV table
MaxTableRows == 2

Column(name, kind) == [name |-> name, kind |-> kind]

\* header rows: each column with the kind of data the export puts in it
Layouts ==
    << << Column(<<"W", "o", "r", "k", " ", "O", "r", "d", "e", "r">>, "work"), Column(<<"D", "e", "s", "c", "r", "i", "p", "t", "i", "o", "n">>, "desc"),
          Column(<<"D", "a", "t", "e", " ", "C", "r", "e", "a", "t", "e", "d">>, "date") >>,
       << Column(<<"B", "u", "i", "l", "d", "i", "n", "g">>, "building"), Column(<<"W", "o", "r", "k", " ", "O", "r", "d", "e", "r">>, "work"),
          Column(<<"D", "e", "s", "c", "r", "i", "p", "t", "i", "o", "n">>, "desc"), Column(<<"D", "a", "t", "e", " ", "C", "r", "e", "a", "t", "e", "d">>, "date"),
          Column(<<"N", "o", "t", "e", "s">>, "blank") >>,
       << Column(<<"I", "n", "s", "p", "e", "c", "t", "i", "o", "n", " ", "S", "t", "a", "t", "u", "s">>, "status"), Column(<<"W", "o", "r", "k", " ", "O", "r", "d", "e", "r">>, "work"),
          Column(<<"D", "e", "s", "c">>, "desc"), Column(<<"D", "a", "t", "e">>, "date") >>,
       << Column(<<"W", "o", "r", "k", " ", "O", "r", "d", "e", "r">>, "work"), Column(<<"D", "e", "s", "c", "r", "i", "p", "t", "i", "o", "n">>, "desc"),
          Column(<<"E", "d", "i", "t", " ", "D", "a", "t", "e">>, "date"), Column(<<"S", "h", "o", "p">>, "shop") >>,
       << Column(<<"W", "o", "r", "k", " ", "O", "r", "d", "e", "r">>, "work"), Column(<<"D", "a", "t", "e", " ", "C", "r", "e", "a", "t", "e", "d">>, "date") >>,
       << Column(<<"D", "e", "s", "c", "r", "i", "p", "t", "i", "o", "n">>, "desc"), Column(<<"D", "a", "t", "e", " ", "C", "r", "e", "a", "t", "e", "d">>, "date") >>,
       << Column(<<"W", "o", "r", "k", " ", "O", "r", "d", "e", "r">>, "work"), Column(<<"D", "e", "s", "c", "r", "i", "p", "t", "i", "o", "n">>, "desc") >> >>

\* the work orders generated tables are made of: a description and a
\* creation date, present (a Monday, a Friday), missing or unparseable
WorkOrderChoices ==
    << [desc |-> Str(Join(<<Word(1), Word(4)>>)), date |-> Str(<<"1", "9", "7", "0", "-", "0", "1", "-", "0", "5">>)],
       [desc |-> Str(Join(<<Word(3), Word(12), Word(2), Word(6)>>)), date |-> NaN],
       [desc |-> Str(Scenario2), date |-> Str(<<"T", "B", "D">>)],
       [desc |-> NaN, date |-> Str(<<"1", "9", "7", "0", "-", "0", "1", "-", "0", "9">>)],
       [desc |-> Str(Join(<<Word(3), Word(7), Word(2), Word(6)>>)), date |-> Str(<<"1", "9", "7", "0", "-", "0", "1", "-", "0", "5">>)] >>

\* the cell of work order wo, row number i, in a column of the given kind
CsvCell(kind, wo, i) ==
    CASE kind = "work"     -> Str(<<"W", "O">> \o <<Ascii[Ord("0") + i]>>)
      [] kind = "desc"     -> wo.desc
      [] kind = "date"     -> wo.date
      [] kind = "building" -> Str(<<"E", "T", "B">>)
      [] kind = "status"   -> Str(<<"C", "o", "m", "p", "l", "e", "t", "e">>)
      [] kind = "shop"     -> Str(<<"H", "V", "A", "C">>)
      [] kind = "blank"    -> NaN

\* a table, run on day 11, Monday 1970-01-12
CsvTable(layout, wos, has_template) ==
    [columns      |-> [k \in 1..Len(layout) |-> layout[k].name],
     rows         |-> [i \in 1..Len(wos) |->
                          [k \in 1..Len(layout) |-> CsvCell(layout[k].kind, wos[i], i)]],
     today        |-> Ts(11, 0),
     has_template |-> has_template]

Tables ==
    {CsvTable(Layouts[l], [i \in DOMAIN cs |-> WorkOrderChoices[cs[i]]], t) :
        l \in 1..Len(Layouts),
        cs \in UNION {[1..k -> 1..Len(WorkOrderChoices)] : k \in 0..MaxTableRows},
        t \in BOOLEAN}

----------------------------------------------------------------------------
(* The two pipelines, each run once on the same CSV table *)

InitBatch ==
    /\ pc = "csv"
    /\ table \in Tables
    /\ report = <<>>
    /\ sheet = <<>>
    /\ ExtractIdle /\ RankIdle /\ PrepareIdle /\ DaysIdle

PrepareTable ==
    /\ pc \in {"csv", "written"}
    /\ pc' = IF pc = "csv" THEN "reported" ELSE "done"
    /\ report' = prepare_dataframe(table)
    /\ UNCHANGED <<table, sheet, extractVars, rankVars, prepareVars, daysVars>>

FormatTable ==
    /\ pc \in {"csv", "reported"}
    /\ pc' = IF pc = "csv" THEN "written" ELSE "done"
    /\ sheet' = run_aim_formatter(table)
    /\ UNCHANGED <<table, report, extractVars, rankVars, prepareVars, daysVars>>

NextBatch == PrepareTable \/ FormatTable

SpecBatch == InitBatch /\ [][NextBatch]_vars

----------------------------------------------------------------------------
(* Properties of the two pipelines *)

Reported == pc \in {"reported", "done"}

Written == pc \in {"written", "done"}

\* a creation date that is missing or unparseable
NoUsableDate(cell) == cell.type # "str" \/ ~IsDateText(cell.text)

\* the place in the written worksheet of the column with the given header,
\* 0 when no header cell holds it
SheetColumn(name) == IndexOf(sheet.ws[1], TextCell(name))

\* the batch fails only for want of a description column
FailsOnlyWithoutDescription(outcome) ==
    outcome.status # "ok" => FindColumn(table.columns, DescriptionTerms) = 0

\* C11: in both pipelines a row whose creation date is missing or
\* unparseable gets the age None and no exception escapes: every row of the
\* batch is output, and only an unlocatable description column makes the
\* batch fail.
C11_BadDateGivesNoAge ==
    /\ Reported =>
          /\ FailsOnlyWithoutDescription(report)
          /\ report.status = "ok" =>
                /\ {report.rows[p].src : p \in 1..Len(report.rows)} = 1..Len(table.rows)
                /\ \A p \in 1..Len(report.rows) :
                      (DateForAge(table.columns) # 0
                          /\ NoUsableDate(table.rows[report.rows[p].src][DateForAge(table.columns)]))
                          => report.rows[p].Age = None
    /\ Written =>
          /\ FailsOnlyWithoutDescription(sheet)
          /\ sheet.status = "ok" =>
                /\ {sheet.df.index[p] : p \in 1..Len(sheet.df.index)} = 1..Len(table.rows)
                /\ Len(sheet.ws) = Len(table.rows) + 1
                /\ \A p \in 1..Len(sheet.df.index) :
                      NoUsableDate(DateCell(table, sheet.df.index[p]))
                          => sheet.ws[p + 1][SheetColumn(AgeDays)] = NoneCell

\* the places of the columns of the DataFrame that are no helper columns
KeptPlaces ==
    LET Keep(k) == sheet.df.columns[k] \notin {FloorRankColumn, RoomRankColumn}
    IN  SelectSeq([k \in 1..Len(sheet.df.columns) |-> k], Keep)

\* C12: the rank keys are never part of the output: the table returned by
\* prepare_dataframe has no __building_rank, __floor_rank or __room_rank
\* column, and the worksheet written by run_aim_formatter has no __FloorRank
\* or __RoomRank column, while every other column, header and data, is
\* still there in its original relative order.
C12_RankColumnsNotInOutput ==
    /\ (Reported /\ report.status = "ok") =>
          \A k \in 1..Len(report.columns) : IndexOf(RankColumns, report.columns[k]) = 0
    /\ (Written /\ sheet.status = "ok") =>
          /\ SheetColumn(FloorRankColumn) = 0
          /\ SheetColumn(RoomRankColumn) = 0
          /\ sheet.ws[1] = [j \in 1..Len(KeptPlaces) |-> TextCell(sheet.df.columns[KeptPlaces[j]])]
          /\ \A p \in 1..Len(sheet.df.rows) :
                sheet.ws[p + 1] = [j \in 1..Len(KeptPlaces) |-> sheet.df.rows[p][KeptPlaces[j]]]

C12_Witness ==
    /\ pc = "done"
    /\ report.status = "ok"
    /\ sheet.status = "ok"
    /\ IndexOf(sheet.df.columns, FloorRankColumn) = Len(sheet.df.columns) - 2
    /\ IndexOf(sheet.df.columns, RoomRankColumn) = Len(sheet.df.columns) - 1
    /\ Len(sheet.ws[1]) = Len(sheet.df.columns) - 2
    /\ SheetColumn(InspectionStatus) = Len(sheet.ws[1])
    /\ sheet.df.index = <<2, 1>>

\* C13: after the helper rank columns were deleted from the worksheet, the
\* dropdown validation range, rows 2 to the last row, lies on the worksheet
\* column whose header cell is "Inspection Status".
C13_DropdownOnInspectionStatus ==
    (Written /\ sheet.status = "ok") =>
        /\ SheetColumn(InspectionStatus) # 0
        /\ sheet.dv.column = SheetColumn(InspectionStatus)
        /\ sheet.dv.first = 2
        /\ sheet.dv.last = Len(sheet.ws)

====
